---- MODULE Spec2Model ----
(***************************************************************************)
(* A model of the phenomenon WebGL runtime: the Renderer of src/index.ts   *)
(* (shared uniforms, instance Map, frame loop) and the Instance of         *)
(* src/Instance.ts (program, attribute buffers, uniform registry).         *)
(*                                                                         *)
(* JavaScript objects with ordered keys are sequences of records with      *)
(* distinct names.  A method is an operator from a "world" record (the     *)
(* mutable heap the method can reach) to the world after the call; an      *)
(* uncaught TypeError is the field err, and every operator leaves a world  *)
(* whose err is set untouched, as the rest of a handler is skipped once an *)
(* exception propagates.  log holds the GL and host calls of the last      *)
(* top-level handler, in order, each method entered leaving a "call".      *)
(*                                                                         *)
(* Scope of the environment of Spec: the onRender hooks are called and     *)
(* logged but do not call back into the renderer; every add is given a     *)
(* settings object of its own; the host changes the canvas size, the       *)
(* camera stays at its default position.  The other specifications lift    *)
(* one of these each: SpecHooks has hooks that call remove and destroy,    *)
(* SpecSettings a settings object passed to add twice, SpecResize a moving *)
(* camera and viewports higher than wide; SpecInstance and SpecRender      *)
(* drive one Instance, SpecBuffer one call of prepareAttribute.            *)
(***************************************************************************)
EXTENDS Integers, Sequences, FiniteSets, TLC

VARIABLES
  shouldRender,  \* Renderer.shouldRender: TRUE = Running, FALSE = Stopped
  instances,     \* Renderer.instances: the Map, entries in insertion order
  inst,          \* the Instance objects ever constructed, by identity
  regs,          \* the uniforms objects (registries) on the heap
  uniforms,      \* Renderer.uniforms: the shared uniforms
  canvas,        \* drawing buffer size <<width, height>>
  position,      \* Renderer.position (camera)
  hooks,         \* whether Renderer.onRender is configured
  pending,       \* frame callbacks queued with requestAnimationFrame
  gl,            \* the context: live buffer and program handles
  log,           \* calls made by the last handler, in order
  err,           \* exception the last handler ended with
  props          \* the settings under test of the single-instance harness

vars == <<shouldRender, instances, inst, regs, uniforms, canvas, position,
          hooks, pending, gl, log, err, props>>

----------------------------------------------------------------------------
(* Bounds *)

MaxInstances == 2
MaxPending == 2
MaxAttrs == 2
MaxVertices == 4
MaxMultiplier == 3

Keys == {"a", "b"}
Sizes == {<<1, 1>>, <<2, 1>>}

----------------------------------------------------------------------------
(* Objects with ordered keys *)

Names(o) == {o[i].name : i \in 1..Len(o)}

Has(o, n) == n \in Names(o)

Idx(o, n) == CHOOSE i \in 1..Len(o) : o[i].name = n

Get(o, n) == o[Idx(o, n)]

\* o[n] = d: an existing key keeps its place, a new key goes last
Put(o, n, d) ==
  IF Has(o, n) THEN [o EXCEPT ![Idx(o, n)] = d] ELSE Append(o, d)

Ev(op, id, name, val) == [op |-> op, id |-> id, name |-> name, val |-> val]

\* the entry of a method of the renderer or of an instance (id 0: renderer)
Call(id, method) == Ev("call", id, method, <<>>)

----------------------------------------------------------------------------
(* Worlds *)

Throw(w, e) == [w EXCEPT !.err = e]

Emit(w, e) == [w EXCEPT !.log = Append(@, e)]

\* a[i] = v on a JavaScript array (0 marks a hole): writing past the end
\* leaves holes between the old end and i
SetAt(a, i, v) ==
  [j \in 1..(IF i > Len(a) THEN i ELSE Len(a)) |->
     IF j = i THEN v ELSE IF j <= Len(a) THEN a[j] ELSE 0]

\* Array.prototype.indexOf: the first index holding n
IndexOf(a, n) == CHOOSE i \in 1..Len(a) : a[i] = n /\ \A j \in 1..(i - 1) : a[j] # n

\* an instance with the constructor's defaults: multiplier 1 and the
\* geometry of one vertex
NoInstance ==
  [made |-> FALSE, glNull |-> FALSE, program |-> 0, reg |-> 0,
   attributes |-> <<>>, attributeKeys |-> <<>>, buffers |-> <<>>,
   onRender |-> FALSE, destroyCalls |-> 0,
   multiplier |-> 1, vertexCount |-> 1]

----------------------------------------------------------------------------
(* Instance, src/Instance.ts *)

PrepareProgram(w, id) ==
  LET p == w.gl.next IN
  [w EXCEPT !.gl.programs = @ \cup {p}, !.gl.next = p + 1,
            !.inst[id].program = p]

\* every descriptor of this.uniforms gets the location its name has in
\* this.program; the location is written into the uniforms object itself
PrepareUniforms(w, id) ==
  LET r == w.inst[id].reg
      p == w.inst[id].program
  IN  [w EXCEPT !.regs[r] =
         [i \in 1..Len(@) |-> [@[i] EXCEPT !.location = p]]]

PrepareBuffer(w, id, name) ==
  LET b == w.gl.next
      k == IndexOf(w.inst[id].attributeKeys, name)
  IN  [w EXCEPT !.gl.buffers = @ \cup {b}, !.gl.next = b + 1,
                !.inst[id].buffers = SetAt(@, k, b),
                !.log = Append(@, Ev("createBuffer", b, name, <<>>))]

PrepareAttribute(w, id, name) == PrepareBuffer(w, id, name)

RECURSIVE PrepareAttributesLoop(_, _, _)
PrepareAttributesLoop(w, id, i) ==
  IF i > Len(w.inst[id].attributes) THEN w
  ELSE LET n  == w.inst[id].attributes[i]
           w1 == [w EXCEPT !.inst[id].attributeKeys = Append(@, n)]
       IN  PrepareAttributesLoop(PrepareAttribute(w1, id, n), id, i + 1)

PrepareAttributes(w, id, geometry) ==
  LET a1 == IF geometry.vertices THEN <<"aPosition">> ELSE <<>>
      a2 == IF geometry.normal THEN <<"aNormal">> ELSE <<>>
      w1 == [w EXCEPT !.inst[id].attributes = @ \o a1 \o a2,
                      !.inst[id].attributeKeys = <<>>]
  IN  PrepareAttributesLoop(w1, id, 1)

\* new Instance(settings): settings.uniforms is the object r of regs,
\* settings.attributes the list attrs, settings.geometry as given
InstanceNew(w, id, r, attrs, geometry, hook) ==
  LET w0 == [w EXCEPT !.inst[id] =
               [NoInstance EXCEPT !.made = TRUE, !.reg = r,
                                  !.attributes = attrs, !.onRender = hook],
                      !.log = Append(@, Call(id, "new"))]
  IN  PrepareAttributes(PrepareUniforms(PrepareProgram(w0, id), id),
                        id, geometry)

RECURSIVE BindLoop(_, _, _)
BindLoop(w, id, i) ==
  IF w.err # "none" \/ i > Len(w.inst[id].buffers) THEN w
  ELSE IF w.inst[id].buffers[i] = 0 THEN Throw(w, "TypeError")
  ELSE BindLoop(Emit(w, Ev("bindBuffer", w.inst[id].buffers[i], "", <<>>)),
                id, i + 1)

\* a broadcast that assigns the shared descriptor, not its value:
\* uniforms[key] = renderUniforms[key]
RECURSIVE BroadcastDescriptor(_, _, _, _)
BroadcastDescriptor(w, r, renderUniforms, i) ==
  IF w.err # "none" \/ i > Len(renderUniforms) THEN w
  ELSE BroadcastDescriptor(
         [w EXCEPT !.regs[r] =
            Put(@, renderUniforms[i].name, renderUniforms[i])],
         r, renderUniforms, i + 1)

\* Object.keys(renderUniforms).forEach(key =>
\*   uniforms[key].value = renderUniforms[key].value)
RECURSIVE Broadcast(_, _, _, _)
Broadcast(w, r, renderUniforms, i) ==
  IF w.err # "none" \/ i > Len(renderUniforms) THEN w
  ELSE LET key == renderUniforms[i].name IN
       IF ~Has(w.regs[r], key) THEN Throw(w, "TypeError")
       ELSE Broadcast(
              [w EXCEPT !.regs[r][Idx(w.regs[r], key)].value =
                          renderUniforms[i].value],
              r, renderUniforms, i + 1)

RECURSIVE Upload(_, _, _)
Upload(w, r, i) ==
  IF w.err # "none" \/ i > Len(w.regs[r]) THEN w
  ELSE LET u == w.regs[r][i] IN
       Upload(Emit(w, Ev("uniform", u.location, u.name, u.value)), r, i + 1)

\* gl.drawArrays(this.mode, 0, multiplier * this.geometry.vertices.length);
\* the event holds first and count
Draw(w, id) ==
  IF w.err # "none" THEN w
  ELSE Emit(w, Ev("drawArrays", id, "",
                  <<0, w.inst[id].multiplier * w.inst[id].vertexCount>>))

InstanceHook(w, id) ==
  IF w.err # "none" \/ ~w.inst[id].onRender THEN w
  ELSE Emit(w, Ev("onRender", id, "", <<>>))

\* what a caller's onRender(instance) does to animate a uniform:
\* instance.uniforms[name].value = val; name "" is a hook that assigns
\* nothing
HookAssign(w, id, name, val) ==
  IF w.err # "none" \/ ~w.inst[id].onRender \/ name = "" THEN w
  ELSE LET r == w.inst[id].reg IN
       IF ~Has(w.regs[r], name) THEN Throw(w, "TypeError")
       ELSE [w EXCEPT !.regs[r][Idx(w.regs[r], name)].value = val,
                      !.log = Append(@, Ev("assign", id, name, val))]

\* a render that uploads the registry before the shared values arrive
InstanceRenderUploadFirst(w, id, renderUniforms) ==
  IF w.err # "none" THEN w
  ELSE IF w.inst[id].glNull THEN Throw(Emit(w, Call(id, "render")), "TypeError")
  ELSE LET r  == w.inst[id].reg
           w1 == Emit(Emit(w, Call(id, "render")),
                      Ev("useProgram", w.inst[id].program, "", <<>>))
           w2 == BindLoop(w1, id, 1)
           w3 == Upload(w2, r, 1)
           w4 == Broadcast(w3, r, renderUniforms, 1)
       IN  InstanceHook(Draw(w4, id), id)

\* Instance.render(renderUniforms)
InstanceRender(w, id, renderUniforms) ==
  IF w.err # "none" THEN w
  ELSE IF w.inst[id].glNull THEN Throw(Emit(w, Call(id, "render")), "TypeError")
  ELSE LET r  == w.inst[id].reg
           w1 == Emit(Emit(w, Call(id, "render")),
                      Ev("useProgram", w.inst[id].program, "", <<>>))
           w2 == BindLoop(w1, id, 1)
           w3 == Broadcast(w2, r, renderUniforms, 1)
           w4 == Upload(w3, r, 1)
       IN  InstanceHook(Draw(w4, id), id)

RECURSIVE DeleteLoop(_, _, _)
DeleteLoop(w, id, i) ==
  IF w.err # "none" \/ i > Len(w.inst[id].buffers) THEN w
  ELSE IF w.inst[id].glNull \/ w.inst[id].buffers[i] = 0
       THEN Throw(w, "TypeError")
  ELSE LET b == w.inst[id].buffers[i] IN
       DeleteLoop([w EXCEPT !.gl.buffers = @ \ {b},
                            !.log = Append(@, Ev("deleteBuffer", b, "", <<>>))],
                  id, i + 1)

\* Instance.destroy()
InstanceDestroy(w, id) ==
  IF w.err # "none" THEN w
  ELSE LET w0 == [w EXCEPT !.inst[id].destroyCalls = @ + 1,
                           !.log = Append(@, Call(id, "destroy"))]
           w1 == DeleteLoop(w0, id, 1)
       IN  IF w1.err # "none" THEN w1
           ELSE IF w1.inst[id].glNull THEN Throw(w1, "TypeError")
           ELSE [w1 EXCEPT !.gl.programs = @ \ {w1.inst[id].program},
                           !.inst[id].glNull = TRUE,
                           !.log = Append(@, Ev("deleteProgram",
                                        w1.inst[id].program, "", <<>>))]

----------------------------------------------------------------------------
(* The buffer of one attribute, prepareAttribute of src/Instance.ts.       *)
(* Indices are the source's: copies j, vertices k, components l and the    *)
(* flat offset all count from 0, and the buffer is a function on           *)
(* 0..length-1.  A vertex or normal is the triple of its x, y, z           *)
(* (positionMap).  attribute.data is undefined, a function, or (once       *)
(* prepareAttribute has stored its result there) a Float32Array.           *)

\* what a Float32Array element holds after undefined was stored in it
NaN == 0 - 1

Undefined == [kind |-> "undefined"]

\* a[l] read into a Float32Array: a missing element arrives as NaN
ElementAt(a, l) == IF (l + 1) \in DOMAIN a THEN a[l + 1] ELSE NaN

\* the source functions a caller may give as attribute.data
DataFns == {"copyIndex", "fixed"}

\* attribute.data(j, multiplier)
ApplyData(fn, j, multiplier) ==
  IF fn = "copyIndex" THEN <<j, multiplier, j + multiplier>>
  ELSE <<7, 8, 9>>

\* modifiers[name](data, k, l, this): a function of all its arguments
ApplyModifier(data, k, l, id) ==
  1000 * id + 100 * k + 10 * l
    + (IF data.kind = "array" THEN ElementAt(data.v, l) ELSE 0)

\* an offset of the copy that leaves the component count out
CopyOffsetNoSize(j, vertexCount, size) == j * vertexCount

\* let offset = j * vertices.length * attribute.size
CopyOffset(j, vertexCount, size) == j * vertexCount * size

\* const data = attribute.data && attribute.data(j, multiplier)
CopyData(s, in, j) ==
  LET d == in.attribute.data IN
  IF d.kind = "undefined" THEN [s EXCEPT !.data = Undefined]
  ELSE IF d.kind # "function" THEN [s EXCEPT !.err = "TypeError"]
  ELSE [s EXCEPT !.data = [kind |-> "array",
                           v |-> ApplyData(d.fn, j, in.multiplier)],
                 !.log = Append(@, Ev("data", in.id, in.attribute.name,
                                      <<j, in.multiplier>>))]

\* a resolution that looks at the built-in names before the modifier
ResolveBuiltinFirst(s, in, k, l) ==
  LET name == in.attribute.name IN
  IF name = "aPosition"
  THEN [val |-> ElementAt(in.geometry.vertices[k + 1], l), err |-> "none"]
  ELSE IF name = "aNormal" /\ (k + 1) \in DOMAIN in.geometry.normal
  THEN [val |-> ElementAt(in.geometry.normal[k + 1], l), err |-> "none"]
  ELSE IF in.modifier
  THEN [val |-> ApplyModifier(s.data, k, l, in.id), err |-> "none"]
  ELSE IF s.data.kind = "array"
  THEN [val |-> ElementAt(s.data.v, l), err |-> "none"]
  ELSE [val |-> NaN, err |-> "TypeError"]

\* the value for (vertex k, component l) of the current copy: the modifier
\* if one is registered, else the geometry for the built-in names, else
\* data[l]; reading an element of undefined is a TypeError
Resolve(s, in, k, l) ==
  LET name == in.attribute.name IN
  IF in.modifier
  THEN [val |-> ApplyModifier(s.data, k, l, in.id), err |-> "none"]
  ELSE IF name = "aPosition"
  THEN [val |-> ElementAt(in.geometry.vertices[k + 1], l), err |-> "none"]
  ELSE IF name = "aNormal"
  THEN IF (k + 1) \in DOMAIN in.geometry.normal
       THEN [val |-> ElementAt(in.geometry.normal[k + 1], l), err |-> "none"]
       ELSE [val |-> NaN, err |-> "TypeError"]
  ELSE IF s.data.kind = "array"
  THEN [val |-> ElementAt(s.data.v, l), err |-> "none"]
  ELSE [val |-> NaN, err |-> "TypeError"]

\* attributeBufferData[offset] = value, then offset += 1; a typed array
\* drops a store outside its length.  The event tells the iteration
\* (copy j, vertex k, component l) that made the store.
Store(s, in, k, l, val) ==
  [s EXCEPT !.buffer = [i \in DOMAIN @ |-> IF i = s.offset THEN val ELSE @[i]],
            !.log = Append(@, Ev("store", s.offset, in.attribute.name,
                                 <<s.j, k, l, val>>)),
            !.offset = @ + 1]

RECURSIVE ComponentLoop(_, _, _, _)
ComponentLoop(s, in, k, l) ==
  IF s.err # "none" \/ l >= in.attribute.size THEN s
  ELSE LET r == Resolve(s, in, k, l) IN
       IF r.err # "none" THEN [s EXCEPT !.err = r.err]
       ELSE ComponentLoop(Store(s, in, k, l, r.val), in, k, l + 1)

RECURSIVE VertexLoop(_, _, _)
VertexLoop(s, in, k) ==
  IF s.err # "none" \/ k >= Len(in.geometry.vertices) THEN s
  ELSE VertexLoop(ComponentLoop(s, in, k, 0), in, k + 1)

RECURSIVE CopyLoop(_, _, _)
CopyLoop(s, in, j) ==
  IF s.err # "none" \/ j >= in.multiplier THEN s
  ELSE LET s1 == CopyData(s, in, j)
           s2 == [s1 EXCEPT !.j = j, !.offset =
                    CopyOffset(j, Len(in.geometry.vertices), in.attribute.size)]
       IN  CopyLoop(VertexLoop(s2, in, 0), in, j + 1)

\* the loops of prepareAttribute over a zero-filled
\* new Float32Array(multiplier * vertices.length * attribute.size);
\* in = [geometry, attribute, multiplier, modifier, id], modifier telling
\* whether modifiers[attribute.name] is defined
AttributeBufferData(in) ==
  CopyLoop([buffer |-> [i \in 0..(in.multiplier * Len(in.geometry.vertices)
                                    * in.attribute.size - 1) |-> 0],
            j |-> 0, offset |-> 0, data |-> Undefined, log |-> <<>>,
            err |-> "none"],
           in, 0)

----------------------------------------------------------------------------
(* Renderer, src/index.ts *)

RECURSIVE GCD(_, _)
GCD(a, b) == IF b = 0 THEN a ELSE GCD(b, a % b)

Desc(name, type, value) ==
  [name |-> name, type |-> type, value |-> value, location |-> 0]

\* The projection matrix has one entry that varies with the viewport,
\* 0.5 * (ratio / angle); the matrix is held as the ratio in lowest terms.
ProjectionMatrix(width, height) ==
  <<width \div GCD(width, height), height \div GCD(width, height)>>

ViewMatrix == <<1, 0, 0, 0,  0, 1, 0, 0,  0, 0, 1, 0,  0, 0, 0, 1>>

\* a depth term that scales with every ratio, also below 1
DepthTermNoClamp(width, height, z) == (width \div height) * (0 - z)

\* (ratio < 1 ? 1 : ratio) * -position.z; Sizes keeps ratio >= 1 integral
DepthTerm(width, height, z) ==
  (IF width < height THEN 1 ELSE width \div height) * (0 - z)

ModelMatrix(width, height, pos) ==
  <<1, 0, 0, 0,  0, 1, 0, 0,  0, 0, 1, 0,
    pos.x, pos.y, DepthTerm(width, height, pos.z), 1>>

\* resize()
Resize(w) ==
  LET bufferWidth  == w.canvas[1]
      bufferHeight == w.canvas[2]
      u1 == Put(w.uniforms, "uProjectionMatrix",
                Desc("uProjectionMatrix", "mat4",
                     ProjectionMatrix(bufferWidth, bufferHeight)))
      u2 == Put(u1, "uViewMatrix", Desc("uViewMatrix", "mat4", ViewMatrix))
      u3 == Put(u2, "uModelMatrix",
                Desc("uModelMatrix", "mat4",
                     ModelMatrix(bufferWidth, bufferHeight, w.position)))
  IN  [w EXCEPT !.uniforms = u3, !.log = Append(@, Call(0, "resize"))]

\* Map.prototype.get / set / delete; a deleted entry stays in the entry list
\* as an empty slot (id 0) so that a running forEach keeps its position
MapHas(m, key) == \E i \in 1..Len(m) : m[i].key = key /\ m[i].id # 0

MapGet(m, key) ==
  IF MapHas(m, key)
  THEN m[CHOOSE i \in 1..Len(m) : m[i].key = key /\ m[i].id # 0].id
  ELSE 0

MapSet(m, key, id) ==
  IF MapHas(m, key)
  THEN [i \in 1..Len(m) |->
          IF m[i].key = key /\ m[i].id # 0 THEN [key |-> key, id |-> id]
          ELSE m[i]]
  ELSE Append(m, [key |-> key, id |-> id])

\* a delete that closes the gap at once, as splicing an array does
MapDeleteSplice(m, key) ==
  LET Other(e) == e.key # key IN SelectSeq(m, Other)

MapDelete(m, key) ==
  [i \in 1..Len(m) |-> IF m[i].key = key THEN [key |-> key, id |-> 0] ELSE m[i]]

IsLive(e) == e.id # 0

\* the entry list once no iteration is running
Compact(m) == SelectSeq(m, IsLive)

RECURSIVE RenderLoop(_, _)
RenderLoop(w, i) ==
  IF w.err # "none" \/ i > Len(w.instances) THEN w
  ELSE IF w.instances[i].id = 0 THEN RenderLoop(w, i + 1)
  ELSE RenderLoop(InstanceRender(w, w.instances[i].id, w.uniforms), i + 1)

RendererHook(w) ==
  IF w.err # "none" \/ ~w.hooks THEN w
  ELSE Emit(w, Ev("onRender", 0, "", <<>>))

Schedule(w) ==
  IF w.err # "none" \/ ~w.shouldRender THEN w
  ELSE [w EXCEPT !.pending = @ + 1,
                 !.log = Append(@, Ev("requestAnimationFrame", 0, "", <<>>))]

\* render that queues the next frame before it draws
RenderScheduleFirst(w) ==
  IF w.err # "none" THEN w
  ELSE RendererHook(RenderLoop(Schedule(Emit(w, Ev("clear", 0, "", <<>>))), 1))

\* render()
Render(w) ==
  IF w.err # "none" THEN w
  ELSE Schedule(RendererHook(RenderLoop(Emit(w, Ev("clear", 0, "", <<>>)), 1)))

\* toggle without its early return: the requested state is applied, and a
\* pass started, also when it equals the current one
ToggleNoGuard(w, arg) ==
  IF w.err # "none" THEN w
  ELSE LET w1 == [w EXCEPT !.log = Append(@, Call(0, arg)),
                           !.shouldRender =
                             IF arg # "toggle()" THEN arg = "toggle(true)" ELSE ~@]
       IN  IF w1.shouldRender THEN Render(w1) ELSE w1

\* toggle that sets the flag and leaves the loop to restart by itself
ToggleSetOnly(w, arg) ==
  IF w.err # "none" THEN w
  ELSE LET w0 == Emit(w, Call(0, arg)) IN
       IF arg \in {"toggle(true)", "toggle(false)"}
          /\ (arg = "toggle(true)") = w.shouldRender
       THEN w0
       ELSE [w0 EXCEPT !.shouldRender =
               IF arg # "toggle()" THEN arg = "toggle(true)" ELSE ~@]

\* toggle that takes a missing argument for false
ToggleUndefinedFalse(w, arg) ==
  IF w.err # "none" THEN w
  ELSE LET w0 == Emit(w, Call(0, arg)) IN
       IF (arg = "toggle(true)") = w.shouldRender
       THEN w0
       ELSE LET w1 == [w0 EXCEPT !.shouldRender = (arg = "toggle(true)")]
            IN  IF w1.shouldRender THEN Render(w1) ELSE w1

\* toggle(shouldRender); arg is the call as written: "toggle(true)",
\* "toggle(false)" or, for an undefined argument, "toggle()"
Toggle(w, arg) ==
  IF w.err # "none" THEN w
  ELSE LET w0 == Emit(w, Call(0, arg)) IN
       IF arg \in {"toggle(true)", "toggle(false)"}
          /\ (arg = "toggle(true)") = w.shouldRender
       THEN w0
       ELSE LET w1 == [w0 EXCEPT !.shouldRender =
                         IF arg # "toggle()" THEN arg = "toggle(true)" ELSE ~@]
            IN  IF w1.shouldRender THEN Render(w1) ELSE w1

\* Object.assign(settings.uniforms, JSON.parse(JSON.stringify(this.uniforms))):
\* the copy of a descriptor holds its type and value and nothing else
\* a snapshot that registers the shared names and types without their values
RECURSIVE AssignSnapshotNoValue(_, _, _)
AssignSnapshotNoValue(reg, shared, i) ==
  IF i > Len(shared) THEN reg
  ELSE AssignSnapshotNoValue(
         Put(reg, shared[i].name, Desc(shared[i].name, shared[i].type, <<>>)),
         shared, i + 1)

RECURSIVE AssignSnapshot(_, _, _)
AssignSnapshot(reg, shared, i) ==
  IF i > Len(shared) THEN reg
  ELSE AssignSnapshot(
         Put(reg, shared[i].name,
             Desc(shared[i].name, shared[i].type, shared[i].value)),
         shared, i + 1)

NextId(w) == 1 + Cardinality({i \in DOMAIN w.inst : w.inst[i].made})

DefaultGeometry == [vertices |-> TRUE, normal |-> FALSE]

\* add(key, settings); settings.uniforms is the object r of regs (an empty
\* one where the caller gave none) and settings.onRender is set iff hook
Add(w, key, r, hook) ==
  IF w.err # "none" THEN w
  ELSE LET id == NextId(w)
           w1 == [w EXCEPT !.regs[r] = AssignSnapshot(@, w.uniforms, 1),
                           !.log = Append(@, Call(0, "add"))]
           w2 == InstanceNew(w1, id, r, <<>>, DefaultGeometry, hook)
       IN  IF w2.err # "none" THEN w2
           ELSE [w2 EXCEPT !.instances = MapSet(@, key, id)]

\* the entry of remove(key); the event carries the key
CallRemove(key) == Ev("call", 0, "remove", <<key>>)

\* a remove that unregisters the key and leaves the instance as it is
RemoveNoDestroy(w, key) ==
  IF w.err # "none" THEN w
  ELSE [w EXCEPT !.instances = MapDelete(@, key),
                 !.log = Append(@, CallRemove(key))]

\* a remove that destroys the instance and leaves it in the Map
RemoveDestroyOnly(w, key) ==
  IF w.err # "none" THEN w
  ELSE LET id == MapGet(w.instances, key)
           w0 == Emit(w, CallRemove(key))
       IN  IF id = 0 THEN w0 ELSE InstanceDestroy(w0, id)

\* remove(key)
Remove(w, key) ==
  IF w.err # "none" THEN w
  ELSE LET id == MapGet(w.instances, key)
           w0 == Emit(w, CallRemove(key))
       IN
       IF id = 0 THEN w0
       ELSE LET w1 == InstanceDestroy(w0, id) IN
            IF w1.err # "none" THEN w1
            ELSE [w1 EXCEPT !.instances = MapDelete(@, key)]

RECURSIVE DestroyLoop(_, _)
DestroyLoop(w, i) ==
  IF w.err # "none" \/ i > Len(w.instances) THEN w
  ELSE IF w.instances[i].id = 0 THEN DestroyLoop(w, i + 1)
  ELSE LET w1 == InstanceDestroy(w, w.instances[i].id) IN
       IF w1.err # "none" THEN w1
       ELSE DestroyLoop(
              [w1 EXCEPT !.instances = MapDelete(@, w.instances[i].key)],
              i + 1)

\* destroy()
Destroy(w) == Toggle(DestroyLoop(Emit(w, Call(0, "destroy")), 1), "toggle(false)")

----------------------------------------------------------------------------
(* Render passes whose onRender hooks call back into the renderer.  What   *)
(* each hook does in a pass is the function does: does[id] for the hook of *)
(* instance id, does[0] for the renderer's, each one of HookCalls.  A hook *)
(* is the last statement of Instance.render, so its call follows the       *)
(* render's own steps.                                                     *)

HookCalls == {<<"none">>, <<"destroy">>} \cup {<<"remove", k>> : k \in Keys}

\* the body of a hook: renderer.remove(key), renderer.destroy(), or nothing
HookDo(w, what) ==
  IF w.err # "none" \/ what = <<"none">> THEN w
  ELSE IF what = <<"destroy">> THEN Destroy(w)
  ELSE Remove(w, what[2])

\* instance.render(this.uniforms) with the hook's body run
HookedInstanceRender(w, id, renderUniforms, does) ==
  LET w1 == InstanceRender(w, id, renderUniforms) IN
  IF w1.err # "none" \/ ~w1.inst[id].onRender THEN w1
  ELSE HookDo(w1, does[id])

\* this.instances.forEach(instance => instance.render(this.uniforms)): an
\* entry deleted before the iteration reaches it is not visited
RECURSIVE HookedRenderLoop(_, _, _)
HookedRenderLoop(w, i, does) ==
  IF w.err # "none" \/ i > Len(w.instances) THEN w
  ELSE IF w.instances[i].id = 0 THEN HookedRenderLoop(w, i + 1, does)
  ELSE HookedRenderLoop(
         HookedInstanceRender(w, w.instances[i].id, w.uniforms, does),
         i + 1, does)

\* render() with the hooks' bodies run
HookedRender(w, does) ==
  IF w.err # "none" THEN w
  ELSE Schedule(
         HookDo(RendererHook(
                  HookedRenderLoop(Emit(w, Ev("clear", 0, "", <<>>)), 1, does)),
                IF w.hooks THEN does[0] ELSE <<"none">>))

\* toggle(shouldRender) with the hooks' bodies run
HookedToggle(w, arg, does) ==
  IF w.err # "none" THEN w
  ELSE LET w0 == Emit(w, Call(0, arg)) IN
       IF arg \in {"toggle(true)", "toggle(false)"}
          /\ (arg = "toggle(true)") = w.shouldRender
       THEN w0
       ELSE LET w1 == [w0 EXCEPT !.shouldRender =
                         IF arg # "toggle()" THEN arg = "toggle(true)" ELSE ~@]
            IN  IF w1.shouldRender THEN HookedRender(w1, does) ELSE w1

----------------------------------------------------------------------------
(* The renderer as a state machine: one action per entry point *)

\* the heap as the handler finds it, with an empty log
World ==
  [shouldRender |-> shouldRender, instances |-> instances, inst |-> inst,
   regs |-> regs, uniforms |-> uniforms, canvas |-> canvas,
   position |-> position, hooks |-> hooks, pending |-> pending, gl |-> gl,
   log |-> <<>>, err |-> "none"]

Commit(w) ==
  /\ shouldRender' = w.shouldRender
  /\ instances' = Compact(w.instances)
  /\ inst' = w.inst
  /\ regs' = w.regs
  /\ uniforms' = w.uniforms
  /\ canvas' = w.canvas
  /\ position' = w.position
  /\ hooks' = w.hooks
  /\ pending' = w.pending
  /\ gl' = w.gl
  /\ log' = w.log
  /\ err' = w.err

\* the uniforms a caller passes to add: none, or one of its own
SettingsUniforms(own) ==
  IF own THEN <<Desc("uTime", "float", <<0>>)>> ELSE <<>>

NoProps == [attributes |-> <<>>, normal |-> FALSE, shared |-> <<>>]

\* the base state S with the fields of world w
Holds(w, p) ==
  /\ shouldRender = w.shouldRender
  /\ instances = w.instances
  /\ inst = w.inst
  /\ regs = w.regs
  /\ uniforms = w.uniforms
  /\ canvas = w.canvas
  /\ position = w.position
  /\ hooks = w.hooks
  /\ pending = w.pending
  /\ gl = w.gl
  /\ log = w.log
  /\ err = w.err
  /\ props = p

\* new Renderer(props): the state once the constructor has returned, having
\* called resize() and render() (which queued the first frame)
Constructed(size, hasHook) ==
  Render(Resize(
    [shouldRender |-> TRUE, instances |-> <<>>,
     inst |-> [i \in 1..MaxInstances |-> NoInstance],
     regs |-> [r \in 1..MaxInstances |-> <<>>],
     uniforms |-> <<>>, canvas |-> size,
     position |-> [x |-> 0, y |-> 0, z |-> 2],
     hooks |-> hasHook, pending |-> 0,
     gl |-> [buffers |-> {}, programs |-> {}, next |-> 1],
     log |-> <<>>, err |-> "none"]))

Init ==
  \E size \in Sizes, hasHook \in BOOLEAN :
    Holds(Constructed(size, hasHook), NoProps)

\* renderer.add(key, settings) with a settings object the caller has just
\* built: its uniforms object is new on the heap
DoAdd ==
  \E key \in Keys, own \in BOOLEAN :
    LET id == NextId(World) IN
    /\ id <= MaxInstances
    /\ Commit(Add([World EXCEPT !.regs[id] = SettingsUniforms(own)],
                  key, id, own))
    /\ UNCHANGED props

\* renderer.remove(key)
DoRemove ==
  \E key \in Keys :
    /\ Commit(Remove(World, key))
    /\ UNCHANGED props

\* renderer.destroy()
DoDestroy ==
  /\ Commit(Destroy(World))
  /\ UNCHANGED props

\* renderer.toggle(arg); a call that starts a pass is held back once
\* MaxPending frames are queued
DoToggle ==
  \E arg \in {"toggle(true)", "toggle(false)", "toggle()"} :
    /\ pending < MaxPending \/ Toggle(World, arg).pending = pending
    /\ Commit(Toggle(World, arg))
    /\ UNCHANGED props

\* the host runs a queued frame callback: () => this.render()
Frame ==
  /\ pending > 0
  /\ Commit(Render([World EXCEPT !.pending = @ - 1]))
  /\ UNCHANGED props

\* the window's resize event: () => this.resize(), which reads the canvas
\* as the host has laid it out
DoResize ==
  \E size \in Sizes :
    /\ Commit(Resize([World EXCEPT !.canvas = size]))
    /\ UNCHANGED props

Next ==
  \/ DoAdd
  \/ DoRemove
  \/ DoDestroy
  \/ DoToggle
  \/ Frame
  \/ DoResize

Spec == Init /\ [][Next]_vars

----------------------------------------------------------------------------
(* One Instance on its own: constructed from settings the caller chose,   *)
(* rendered with a set of shared uniforms the caller chose, destroyed.     *)

AttrNames == {"aOffset", "aColor", "aPosition"}

AttrLists == UNION {[1..n -> AttrNames] : n \in 0..MaxAttrs}

OwnUniforms ==
  { <<>>,
    <<Desc("uTime", "float", <<0>>)>>,
    <<Desc("uModelMatrix", "mat4", <<1>>), Desc("uTime", "float", <<0>>)>> }

SharedUniforms ==
  { <<>>,
    <<Desc("uModelMatrix", "mat3", <<2>>)>>,
    <<Desc("uViewMatrix", "mat4", <<3>>)>>,
    <<Desc("uModelMatrix", "mat3", <<2>>), Desc("uViewMatrix", "mat4", <<3>>)>> }

InitInstance ==
  \E attrs \in AttrLists, normal \in BOOLEAN,
     own \in OwnUniforms, shared \in SharedUniforms :
    Holds([Constructed(<<1, 1>>, FALSE) EXCEPT !.regs[1] = own, !.log = <<>>],
          [attributes |-> attrs, normal |-> normal, shared |-> shared])

\* new Instance(props)
IConstruct ==
  /\ ~inst[1].made
  /\ Commit(InstanceNew(World, 1, 1, props.attributes,
                        [vertices |-> TRUE, normal |-> props.normal], TRUE))
  /\ UNCHANGED props

\* instance.render(props.shared)
IRender ==
  /\ inst[1].made
  /\ Commit(InstanceRender(World, 1, props.shared))
  /\ UNCHANGED props

\* instance.destroy()
IDestroy ==
  /\ inst[1].made
  /\ inst[1].destroyCalls < 2
  /\ Commit(InstanceDestroy(World, 1))
  /\ UNCHANGED props

NextInstance ==
  \/ IConstruct
  \/ IRender
  \/ IDestroy

SpecInstance == InitInstance /\ [][NextInstance]_vars

----------------------------------------------------------------------------
(* prepareAttribute on its own: one attribute of an instance under         *)
(* construction, with the geometry, multiplier and modifier the caller     *)
(* chose; props holds these settings, and the attribute's data is replaced *)
(* by the buffer as prepareAttribute stores it there.                      *)

Vertex(k) == <<10 * k + 1, 10 * k + 2, 10 * k + 3>>

Normal(k) == <<10 * k + 5, 10 * k + 6, 10 * k + 7>>

AttrSizes == {1, 2, 3}

AttrData == {Undefined} \cup {[kind |-> "function", fn |-> f] : f \in DataFns}

\* the instance at the call of prepareAttribute for its attribute name
BufferWorld(name) ==
  PrepareProgram(
    [Constructed(<<1, 1>>, FALSE) EXCEPT
       !.log = <<>>,
       !.inst[1] = [NoInstance EXCEPT !.made = TRUE, !.reg = 1,
                                      !.attributes = <<name>>,
                                      !.attributeKeys = <<name>>]],
    1)

InitBuffer ==
  \E n \in 0..MaxVertices, hasNormal \in BOOLEAN, name \in AttrNames \cup {"aNormal"},
     size \in AttrSizes, data \in AttrData, multiplier \in 1..MaxMultiplier,
     modifier \in BOOLEAN :
    Holds(BufferWorld(name),
          [geometry |-> [vertices |-> [k \in 1..n |-> Vertex(k - 1)],
                         normal |-> IF hasNormal
                                    THEN [k \in 1..n |-> Normal(k - 1)]
                                    ELSE <<>>],
           attribute |-> [name |-> name, size |-> size, data |-> data],
           multiplier |-> multiplier, modifier |-> modifier, id |-> 1])

\* instance.prepareAttribute(attribute): the buffer is built, stored as the
\* attribute's data and handed to prepareBuffer
BPrepareAttribute ==
  /\ props.attribute.data.kind # "Float32Array"
  /\ LET s  == AttributeBufferData(props)
         w1 == [World EXCEPT !.log = s.log, !.err = s.err]
     IN  IF s.err # "none"
         THEN Commit(w1) /\ UNCHANGED props
         ELSE /\ Commit(PrepareBuffer(w1, props.id, props.attribute.name))
              /\ props' = [props EXCEPT !.attribute.data =
                             [kind |-> "Float32Array", v |-> s.buffer]]

NextBuffer == BPrepareAttribute

SpecBuffer == InitBuffer /\ [][NextBuffer]_vars

----------------------------------------------------------------------------
(* resize() under viewports of ratio below, at and above 1 and a camera    *)
(* the caller moves: renderer.position = {x, y: 0, z} between two resize   *)
(* events.                                                                 *)

\* drawing buffer sizes <<width, height>>; a ratio above 1 is integral
ResizeSizes ==
  {<<1, 2>>, <<2, 3>>, <<1, 1>>, <<2, 2>>, <<2, 1>>, <<4, 2>>, <<3, 1>>}

CameraX == {0, 1}

CameraZ == {1, 2, 3}

InitResize ==
  \E size \in ResizeSizes : Holds(Constructed(size, FALSE), NoProps)

\* renderer.position = { x, y: 0, z }
RMove ==
  \E x \in CameraX, z \in CameraZ :
    /\ position' = [x |-> x, y |-> 0, z |-> z]
    /\ log' = <<Ev("assign", 0, "position", <<x, 0, z>>)>>
    /\ UNCHANGED <<shouldRender, instances, inst, regs, uniforms, canvas,
                   hooks, pending, gl, err, props>>

\* the window's resize event, the canvas laid out as size (which may be
\* the size it has)
RResize ==
  \E size \in ResizeSizes :
    /\ Commit(Resize([World EXCEPT !.canvas = size]))
    /\ UNCHANGED props

NextResize ==
  \/ RMove
  \/ RResize

SpecResize == InitResize /\ [][NextResize]_vars

----------------------------------------------------------------------------
(* One Instance rendered frame after frame: the shared values differ from  *)
(* frame to frame, and the instance's onRender hook assigns a value to one *)
(* of the instance's uniforms, as a caller animating a uniform does.       *)

\* the value a hook assigns; no shared or initial value equals it
HookValue == <<9>>

\* the shared set sh with the values of frame t
SharedAt(sh, t) ==
  [i \in 1..Len(sh) |-> [sh[i] EXCEPT !.value = <<sh[i].value[1] + 10 * t>>]]

\* Object.assign(this, props) for props.multiplier and a props.geometry of
\* vertexCount vertices; nothing the constructor does before render reads
\* them in this model
AssignProps(w, id, multiplier, vertexCount) ==
  [w EXCEPT !.inst[id].multiplier = multiplier,
            !.inst[id].vertexCount = vertexCount]

\* <<props.multiplier, props.geometry.vertices.length>>
DrawCounts == {<<1, 1>>, <<2, 3>>, <<3, 4>>}

\* the state after new Instance(props)
InitRender ==
  \E attrs \in AttrLists, own \in OwnUniforms, hook \in BOOLEAN,
     counts \in DrawCounts :
    Holds([AssignProps(
             InstanceNew([Constructed(<<1, 1>>, FALSE) EXCEPT !.regs[1] = own],
                         1, 1, attrs, DefaultGeometry, hook),
             1, counts[1], counts[2])
            EXCEPT !.log = <<>>],
          [attributes |-> attrs, normal |-> FALSE, shared |-> <<>>])

\* instance.render(shared) with the shared values of some frame; the hook,
\* if the instance has one, assigns HookValue to one of the instance's
\* uniforms or assigns nothing
SRender ==
  \E sh \in SharedUniforms, t \in {0, 1}, name \in Names(regs[1]) \cup {""} :
    /\ Commit(HookAssign(InstanceRender(World, 1, SharedAt(sh, t)),
                         1, name, HookValue))
    /\ props' = [props EXCEPT !.shared = SharedAt(sh, t)]

\* instance.destroy()
SDestroy ==
  /\ inst[1].destroyCalls < 1
  /\ Commit(InstanceDestroy(World, 1))
  /\ UNCHANGED props

NextRender ==
  \/ SRender
  \/ SDestroy

SpecRender == InitRender /\ [][NextRender]_vars

----------------------------------------------------------------------------
(* The renderer with hooks that call remove and destroy in mid-pass: every *)
(* instance and the renderer have an onRender hook.                        *)

InitHooks == Holds(Constructed(<<1, 1>>, TRUE), NoProps)

\* what the hooks that can run in the next pass may do: one choice for the
\* renderer's hook and one for each registered instance's
HookChoices ==
  [{0} \cup {instances[i].id : i \in 1..Len(instances)} -> HookCalls]

HAdd ==
  \E key \in Keys :
    LET id == NextId(World) IN
    /\ id <= MaxInstances
    /\ Commit(Add(World, key, id, TRUE))
    /\ UNCHANGED props

HToggle ==
  \E arg \in {"toggle(true)", "toggle(false)", "toggle()"},
     does \in HookChoices :
    /\ pending < MaxPending \/ HookedToggle(World, arg, does).pending <= pending
    /\ Commit(HookedToggle(World, arg, does))
    /\ UNCHANGED props

HFrame ==
  \E does \in HookChoices :
    /\ pending > 0
    /\ Commit(HookedRender([World EXCEPT !.pending = @ - 1], does))
    /\ UNCHANGED props

NextHooks ==
  \/ HAdd
  \/ DoRemove
  \/ DoDestroy
  \/ HToggle
  \/ HFrame

SpecHooks == InitHooks /\ [][NextHooks]_vars

----------------------------------------------------------------------------
(* The renderer with a caller that may pass a settings object to add a     *)
(* second time: Object.assign(this, props) makes the instance's uniforms   *)
(* the settings' uniforms object itself.                                   *)

\* renderer.add(key, settings): settings is a new object (r is the new
\* instance's id) or the object given to the add that made instance r
SAdd ==
  \E key \in Keys, own \in BOOLEAN :
    LET id == NextId(World) IN
    /\ id <= MaxInstances
    /\ \E r \in 1..id :
         /\ Commit(Add(IF r = id
                       THEN [World EXCEPT !.regs[id] = SettingsUniforms(own)]
                       ELSE World,
                       key, r, own))
         /\ UNCHANGED props

NextSettings ==
  \/ SAdd
  \/ DoRemove
  \/ Frame
  \/ DoResize

SpecSettings == Init /\ [][NextSettings]_vars

----------------------------------------------------------------------------
(* Properties *)

Registered(id) == \E i \in 1..Len(instances) : instances[i].id = id

Released(id) ==
  /\ inst[id].destroyCalls >= 1
  /\ inst[id].program \notin gl.programs
  /\ \A i \in 1..Len(inst[id].buffers) : inst[id].buffers[i] \notin gl.buffers

\* the positions of log l that hold event e / an event with operation op
At(l, e) == {i \in 1..Len(l) : l[i] = e}

AtOp(l, op) == {i \in 1..Len(l) : l[i].op = op}

\* the last handler was the method named m of the renderer (id 0) or of
\* instance id
LastCall(l, id, m) == l # <<>> /\ l[1] = Call(id, m)

\* the last handler was a frame callback
LastFrame(l) == l # <<>> /\ l[1].op = "clear"

\* every shared uniform sh[i] has its value in registry reg
SharedMatches(reg, sh) ==
  \A i \in 1..Len(sh) :
    Has(reg, sh[i].name) /\ Get(reg, sh[i].name).value = sh[i].value

\* C1: every instance add created is still registered or has been destroyed
\* (destroy() run, buffers and program released).
C1_RegisteredOrDestroyed ==
  \A id \in DOMAIN inst : inst[id].made => Registered(id) \/ Released(id)

\* C2: while the renderer stays Stopped, a frame callback that was pending
\* runs a complete pass, schedules nothing, and leaves no frame callback
\* pending.
C2_StoppedLoopDrains ==
  [][ (~shouldRender /\ ~shouldRender' /\ LastFrame(log'))
        => /\ err' = "none"
           /\ Cardinality(AtOp(log', "drawArrays")) = Len(instances)
           /\ AtOp(log', "requestAnimationFrame") = {}
           /\ pending' = 0 ]_vars

\* C3: toggle(true) while Stopped sets Running and performs exactly one
\* render pass inside the call, and that pass schedules the next frame.
C3_ToggleOnRendersOnce ==
  [][ (~shouldRender /\ LastCall(log', 0, "toggle(true)"))
        => /\ shouldRender'
           /\ err' = "none"
           /\ AtOp(log', "clear") = {2}
           /\ Cardinality(AtOp(log', "drawArrays")) = Len(instances)
           /\ AtOp(log', "requestAnimationFrame") = {Len(log')}
           /\ pending' = pending + 1 ]_vars

C3_Witness ==
  /\ LastCall(log, 0, "toggle(true)")
  /\ Len(log) > 1
  /\ shouldRender
  /\ pending = 1
  /\ Len(instances) = 2

\* C4: toggle(b) with b equal to the current flag changes nothing: flag,
\* registry, instances, shared uniforms, queued frames and GL objects stay,
\* nothing is called and nothing is raised.
C4_ToggleSameIsNoOp ==
  [][ (/\ log' # <<>>
       /\ log'[1] \in {Call(0, "toggle(true)"), Call(0, "toggle(false)")}
       /\ (log'[1] = Call(0, "toggle(true)")) = shouldRender)
        => /\ UNCHANGED <<shouldRender, instances, inst, regs, uniforms,
                          pending, gl>>
           /\ Len(log') = 1
           /\ err' = "none" ]_vars

C4_Witness ==
  /\ log = <<Call(0, "toggle(true)")>>
  /\ shouldRender
  /\ pending = 1
  /\ instances # <<>>

\* the events of the render pass in log l, from its clear on
Pass(l) ==
  LET c == CHOOSE i \in AtOp(l, "clear") : TRUE IN SubSeq(l, c, Len(l))

IsRenderCall(e) == e.op = "call" /\ e.name = "render"

\* C5: one render pass clears first, then renders every registered instance
\* exactly once in Map order with the current shared uniforms, then runs the
\* renderer's hook if one is configured, and last of all schedules exactly
\* one frame if the flag is Running at that moment and none if it is Stopped.
C5_PassOrder ==
  AtOp(log, "clear") # {} =>
    LET pass    == Pass(log)
        renders == SelectSeq(pass, IsRenderCall)
        hookAt  == {i \in AtOp(pass, "onRender") : pass[i].id = 0}
        rafAt   == AtOp(pass, "requestAnimationFrame")
        drawn   == AtOp(pass, "drawArrays") \cup AtOp(pass, "uniform")
                     \cup AtOp(pass, "call") \cup AtOp(pass, "useProgram")
    IN  /\ Cardinality(AtOp(log, "clear")) = 1
        /\ err = "none"
        /\ \A i \in 1..(Len(log) - Len(pass)) : log[i].op = "call"
        /\ [i \in 1..Len(renders) |-> renders[i].id]
             = [i \in 1..Len(instances) |-> instances[i].id]
        /\ \A i \in AtOp(pass, "uniform") :
             Has(uniforms, pass[i].name)
               => pass[i].val = Get(uniforms, pass[i].name).value
        /\ Cardinality(hookAt) = (IF hooks THEN 1 ELSE 0)
        /\ \A h \in hookAt, i \in drawn : i < h
        /\ rafAt = (IF shouldRender THEN {Len(pass)} ELSE {})

C5_Witness ==
  /\ LastFrame(log)
  /\ Len(instances) = 2
  /\ hooks
  /\ shouldRender
  /\ Cardinality(AtOp(log, "drawArrays")) = 2
  /\ log[Len(log)].op = "requestAnimationFrame"

\* C6: add gives the new instance the renderer's shared uniform values of
\* the time of the call; a handler that changes the renderer's shared
\* uniforms changes no instance's uniforms; after a render pass every
\* registered instance holds the renderer's current shared values.
C6_SnapshotByValue ==
  [][ /\ LastCall(log', 0, "add") =>
           LET id == NextId(World) IN
           /\ inst'[id].made
           /\ SharedMatches(regs'[inst'[id].reg], uniforms)
      /\ uniforms' # uniforms => regs' = regs
      /\ AtOp(log', "clear") # {} =>
           \A i \in 1..Len(instances') :
             SharedMatches(regs'[inst'[instances'[i].id].reg], uniforms')
    ]_vars

\* a registered instance still holds the snapshot after resize() gave the
\* renderer other values
C6_Witness ==
  /\ LastCall(log, 0, "resize")
  /\ \E i \in 1..Len(instances) :
       LET reg == regs[inst[instances[i].id].reg] IN
       /\ ~SharedMatches(reg, uniforms)
       /\ Names(uniforms) \subseteq Names(reg)

NoHoles(a) == \A i \in 1..Len(a) : a[i] # 0

\* C7: Instance.render ignores a shared uniform name the registry lacks: no
\* error, no new registry entry, every uniform uploaded and the draw issued.
C7_AbsentSharedIgnored ==
  [][ (/\ inst[1].made
       /\ ~inst[1].glNull
       /\ NoHoles(inst[1].buffers)
       /\ ~(Names(props.shared) \subseteq Names(regs[1]))
       /\ LastCall(log', 1, "render"))
        => /\ err' = "none"
           /\ Names(regs'[1]) = Names(regs[1])
           /\ Cardinality(AtOp(log', "uniform")) = Len(regs[1])
           /\ Cardinality(AtOp(log', "drawArrays")) = 1 ]_vars

\* C8: the broadcast of Instance.render changes nothing but the value of
\* uniforms named in the shared set: names, type tags and locations stay,
\* a uniform outside the shared set keeps its value too, and a value that
\* changes becomes the shared one.
C8_BroadcastOnlyValues ==
  [][ LastCall(log', 1, "render")
        => /\ Len(regs'[1]) = Len(regs[1])
           /\ \A i \in 1..Len(regs[1]) :
                LET old == regs[1][i]
                    new == regs'[1][i]
                IN  /\ new.name = old.name
                    /\ new.type = old.type
                    /\ new.location = old.location
                    /\ ~Has(props.shared, old.name) => new.value = old.value
                    /\ new.value # old.value
                         => new.value = Get(props.shared, old.name).value
    ]_vars

\* a completed render whose shared set carried uModelMatrix with another
\* type tag and value: the value arrived, the tag and location did not move
C8_Witness ==
  /\ LastCall(log, 1, "render")
  /\ err = "none"
  /\ Has(props.shared, "uModelMatrix")
  /\ Has(regs[1], "uModelMatrix") /\ Has(regs[1], "uTime")
  /\ Get(regs[1], "uModelMatrix").value = <<2>>
  /\ Get(regs[1], "uModelMatrix").type = "mat4"
  /\ Get(regs[1], "uModelMatrix").location = inst[1].program
  /\ Get(regs[1], "uTime").value = <<0>>

\* C9: Renderer.destroy() leaves the registry empty and the renderer
\* Stopped, has called destroy() exactly once on every instance that was
\* registered, and stops the loop only after the last of them.
C9_DestroyAll ==
  [][ LastCall(log', 0, "destroy")
        => /\ err' = "none"
           /\ instances' = <<>>
           /\ ~shouldRender'
           /\ \A i \in 1..Len(instances) :
                LET id == instances[i].id IN
                /\ Cardinality(At(log', Call(id, "destroy"))) = 1
                /\ inst'[id].destroyCalls = 1
                /\ inst'[id].glNull
           /\ Cardinality({i \in AtOp(log', "call") :
                             log'[i].name = "destroy" /\ log'[i].id # 0})
                = Len(instances)
           /\ \A i \in AtOp(log', "call") :
                log'[i].name = "destroy" =>
                  \A t \in At(log', Call(0, "toggle(false)")) : i < t
           /\ At(log', Call(0, "toggle(false)")) # {}
    ]_vars

C9_Witness ==
  /\ LastCall(log, 0, "destroy")
  /\ Cardinality(AtOp(log, "deleteProgram")) = 2
  /\ instances = <<>>
  /\ ~shouldRender
  /\ pending = 1

\* C10: Instance.destroy() releases every buffer the instance created and
\* then its program, whatever the attribute list.
C10_DestroyReleasesAll ==
  (LastCall(log, 1, "destroy") /\ inst[1].destroyCalls = 1)
    => /\ err = "none"
       /\ gl.buffers = {}
       /\ gl.programs = {}
       /\ AtOp(log, "deleteProgram") = {Len(log)}

\* the calls of destroy() on an instance in log l
DestroyCalls(l) ==
  {i \in AtOp(l, "call") : l[i].name = "destroy" /\ l[i].id # 0}

\* C11: remove(key) with a key that is not registered changes nothing (same
\* Map entries in the same order, no instance touched, flag unchanged, no
\* error); with a registered key it calls destroy() on exactly the instance
\* registered under it and takes exactly that entry out of the Map.
C11_RemoveExactlyKey ==
  [][ \A key \in Keys :
        (log' # <<>> /\ log'[1] = CallRemove(key)) =>
          LET at == {i \in 1..Len(instances) : instances[i].key = key} IN
          /\ err' = "none"
          /\ shouldRender' = shouldRender
          /\ pending' = pending
          /\ at = {} =>
                /\ instances' = instances
                /\ inst' = inst
                /\ gl' = gl
                /\ Len(log') = 1
          /\ at # {} =>
                LET i  == CHOOSE i \in at : TRUE
                    id == instances[i].id
                IN  /\ Cardinality(at) = 1
                    /\ instances' =
                         SubSeq(instances, 1, i - 1)
                           \o SubSeq(instances, i + 1, Len(instances))
                    /\ DestroyCalls(log') = {2}
                    /\ log'[2] = Call(id, "destroy")
                    /\ inst'[id].destroyCalls = inst[id].destroyCalls + 1
                    /\ inst'[id].glNull
                    /\ \A o \in DOMAIN inst : o # id => inst'[o] = inst[o]
    ]_vars

\* remove("a") took the first of two entries out and destroyed its instance
C11_Witness ==
  /\ log # <<>> /\ log[1] = CallRemove("a")
  /\ Len(log) > 1
  /\ Len(instances) = 1 /\ instances[1].key = "b"
  /\ ~inst[instances[1].id].glNull
  /\ \E id \in DOMAIN inst : inst[id].glNull

\* remove of a key that is not registered, with another key registered
C11_WitnessAbsent ==
  /\ log = <<CallRemove("a")>>
  /\ Len(instances) = 1 /\ instances[1].key = "b"

\* the attribute is one the builder is meant for: a built-in name with its
\* geometry data, or a name with a source function or a modifier
Supplied(p) ==
  \/ p.modifier
  \/ p.attribute.name = "aPosition"
  \/ p.attribute.name = "aNormal" /\ Len(p.geometry.normal) = Len(p.geometry.vertices)
  \/ p.attribute.name \notin {"aPosition", "aNormal"}
       /\ p.attribute.data.kind = "function"

\* the iterations (copy, vertex, component) prepareAttribute runs for p
Iterations(p) ==
  (0..(p.multiplier - 1)) \X (0..(Len(p.geometry.vertices) - 1))
    \X (0..(p.attribute.size - 1))

\* C12: the buffer built for an attribute has length multiplier *
\* vertexCount * size; the value of (copy j, vertex k, component l) is
\* stored at index j * vertexCount * size + k * size + l; every index of the
\* buffer is written exactly once.
C12_BufferLayout ==
  /\ err # "none" => ~Supplied(props)
  /\ props.attribute.data.kind = "Float32Array" =>
       LET buffer      == props.attribute.data.v
           multiplier  == props.multiplier
           vertexCount == Len(props.geometry.vertices)
           size        == props.attribute.size
           stores      == AtOp(log, "store")
       IN  /\ DOMAIN buffer = 0..(multiplier * vertexCount * size - 1)
           /\ \A i \in DOMAIN buffer :
                Cardinality({p \in stores : log[p].id = i}) = 1
           /\ \A p \in stores :
                LET j == log[p].val[1]
                    k == log[p].val[2]
                    l == log[p].val[3]
                IN  /\ log[p].id = j * vertexCount * size + k * size + l
                    /\ log[p].id \in DOMAIN buffer
           /\ {<<log[p].val[1], log[p].val[2], log[p].val[3]>> : p \in stores}
                = Iterations(props)

\* 4 vertices, 3 components, 3 copies: 36 elements, copy 1 from index 12
C12_Witness ==
  /\ props.attribute.data.kind = "Float32Array"
  /\ Len(props.geometry.vertices) = 4
  /\ props.attribute.size = 3
  /\ props.multiplier = 3
  /\ DOMAIN props.attribute.data.v = 0..35
  /\ \E p \in AtOp(log, "store") :
       log[p].id = 12 /\ SubSeq(log[p].val, 1, 3) = <<1, 0, 0>>

\* the value the source's priority gives (copy j, vertex k, component l) of
\* attribute settings p: the modifier's result on the copy's data, else the
\* geometry for the built-in names, else the copy's data
Expected(p, j, k, l) ==
  LET fn   == p.attribute.data
      data == IF fn.kind = "function"
              THEN [kind |-> "array", v |-> ApplyData(fn.fn, j, p.multiplier)]
              ELSE Undefined
  IN  IF p.modifier THEN ApplyModifier(data, k, l, p.id)
      ELSE IF p.attribute.name = "aPosition"
      THEN ElementAt(p.geometry.vertices[k + 1], l)
      ELSE IF p.attribute.name = "aNormal"
      THEN IF (k + 1) \in DOMAIN p.geometry.normal
           THEN ElementAt(p.geometry.normal[k + 1], l) ELSE NaN
      ELSE IF data.kind = "array" THEN ElementAt(data.v, l) ELSE NaN

\* C13: the element for (copy j, vertex k, component l) is the modifier's
\* result for (data of copy j, k, l, instance) if a modifier is registered
\* for the name, also for aPosition and aNormal; else component l of vertex
\* k (aPosition) or of normal k (aNormal); else component l of the data of
\* copy j; the source function is called once per copy, with
\* (j, multiplier), in copy order.
C13_ValuePriority ==
  [][ (props.attribute.data.kind # "Float32Array"
       /\ props'.attribute.data.kind = "Float32Array")
        => LET buffer == props'.attribute.data.v
               calls  == AtOp(log', "data")
               Called(e) == e.op = "data"
           IN  /\ \A p \in AtOp(log', "store") :
                    LET v == log'[p].val IN
                    /\ v[4] = Expected(props, v[1], v[2], v[3])
                    /\ buffer[log'[p].id] = v[4]
               /\ SelectSeq(log', Called) =
                    IF props.attribute.data.kind = "function"
                    THEN [j \in 1..props.multiplier |->
                            Ev("data", props.id, props.attribute.name,
                               <<j - 1, props.multiplier>>)]
                    ELSE <<>>
    ]_vars

\* a modifier registered for aPosition decided every element of a buffer
\* of two copies of two vertices that have normals
C13_Witness ==
  /\ props.attribute.data.kind = "Float32Array"
  /\ props.attribute.name = "aPosition"
  /\ props.modifier
  /\ props.multiplier = 2
  /\ Len(props.geometry.vertices) = 2
  /\ props.attribute.size = 3
  /\ props.attribute.data.v[0] = 1000
  /\ props.attribute.data.v[11] = 1120
  /\ Cardinality(AtOp(log, "data")) = 0

\* the depth term of the shared model matrix u
Depth(u) == Get(u, "uModelMatrix").value[15]

\* C14: after resize() the depth term of the model matrix is
\* -max(1, ratio) * position.z for ratio = width / height: -z up to ratio 1,
\* -ratio * z above; resize() called again with the viewport and camera
\* unchanged leaves the three shared uniforms as they are.
C14_DepthTerm ==
  [][ LastCall(log', 0, "resize") =>
        LET width  == canvas'[1]
            height == canvas'[2]
            z      == position'.z
        IN  /\ err' = "none"
            /\ Names(uniforms') =
                 {"uProjectionMatrix", "uViewMatrix", "uModelMatrix"}
            /\ width <= height => Depth(uniforms') = 0 - z
            /\ width > height => Depth(uniforms') * height = 0 - width * z
            /\ (LastCall(log, 0, "resize") /\ canvas' = canvas)
                  => uniforms' = uniforms
    ]_vars

\* a viewport higher than wide with the camera moved to z = 3
C14_Witness ==
  /\ LastCall(log, 0, "resize")
  /\ canvas = <<1, 2>>
  /\ position.z = 3
  /\ Depth(uniforms) = 0 - 3

\* ratio 2 with the camera at z = 3
C14_WitnessWide ==
  /\ LastCall(log, 0, "resize")
  /\ canvas = <<4, 2>>
  /\ position.z = 3
  /\ Depth(uniforms) = 0 - 6

IsPrefix(a, b) == Len(a) <= Len(b) /\ a = SubSeq(b, 1, Len(a))

\* the calls one render of instance 1 makes up to its draw, from the state
\* before it and the shared set sh it is given
RenderCalls(sh) ==
  LET reg == regs[inst[1].reg] IN
  <<Call(1, "render"), Ev("useProgram", inst[1].program, "", <<>>)>>
    \o [i \in 1..Len(inst[1].buffers) |->
          Ev("bindBuffer", inst[1].buffers[i], "", <<>>)]
    \o [i \in 1..Len(reg) |->
          Ev("uniform", reg[i].location, reg[i].name,
             IF Has(sh, reg[i].name) THEN Get(sh, reg[i].name).value
             ELSE reg[i].value)]
    \o <<Ev("drawArrays", 1, "",
            <<0, inst[1].multiplier * inst[1].vertexCount>>)>>

\* C15: one Instance.render activates the program, rebinds every buffer,
\* uploads every registered uniform with this frame's shared values in
\* place, draws once with first 0 and count multiplier * vertexCount, and
\* only then runs the hook; a render that raises stops inside this order;
\* what the hook assigned to a shared name is never uploaded by the next
\* render.
C15_RenderOrder ==
  [][ LastCall(log', 1, "render") =>
        LET calls == RenderCalls(props'.shared)
            tail  == SubSeq(log', Len(calls) + 1, Len(log'))
        IN  /\ IF err' # "none" THEN IsPrefix(log', calls)
               ELSE /\ IsPrefix(calls, log')
                    /\ Len(tail) <= 2
                    /\ inst[1].onRender = (tail # <<>>)
                    /\ tail # <<>> => tail[1] = Ev("onRender", 1, "", <<>>)
                    /\ Len(tail) = 2 => tail[2].op = "assign"
            /\ (/\ ~inst[1].glNull
                /\ NoHoles(inst[1].buffers)
                /\ Names(props'.shared) \subseteq Names(regs[inst[1].reg]))
                  => err' = "none"
            /\ \A a \in AtOp(log, "assign"), u \in AtOp(log', "uniform") :
                 (log'[u].name = log[a].name /\ Has(props'.shared, log[a].name))
                   => /\ log'[u].val # log[a].val
                      /\ log'[u].val = Get(props'.shared, log[a].name).value
    ]_vars

\* the hook of the frame before assigned uModelMatrix; this frame uploaded
\* the shared value for it and the hook's value for uTime never came back
C15_Witness ==
  /\ LastCall(log, 1, "render")
  /\ err = "none"
  /\ inst[1].multiplier = 2 /\ inst[1].vertexCount = 3
  /\ Len(inst[1].buffers) = 3
  /\ props.shared = <<Desc("uModelMatrix", "mat3", <<12>>)>>
  /\ \E u \in AtOp(log, "uniform") :
       log[u].name = "uModelMatrix" /\ log[u].val = <<12>>
  /\ \E d \in AtOp(log, "drawArrays") : log[d].val = <<0, 6>>
  /\ log[Len(log)] = Ev("assign", 1, "uModelMatrix", HookValue)
  /\ Get(regs[1], "uModelMatrix").value = HookValue

\* C16: at most one frame callback is queued with requestAnimationFrame at
\* any time, whatever toggle calls and frame callbacks came before.
C16_SingleLoop == pending <= 1

\* C17: no handler, whatever the hooks of its render pass remove or
\* destroy on the way, calls Instance.render on an instance whose destroy()
\* has run, be it in an earlier handler or earlier in the same one; no
\* handler raises.
C17_NoRenderAfterDestroy ==
  [][ /\ err' = "none"
      /\ \A p \in AtOp(log', "call") :
           log'[p].name = "render" =>
             LET id == log'[p].id IN
             /\ inst[id].destroyCalls = 0
             /\ \A q \in 1..(p - 1) : log'[q] # Call(id, "destroy")
    ]_vars

\* a frame in which the hook of the first instance removed the second
\* before the pass reached it: the second was destroyed and not rendered
C17_Witness ==
  /\ LastFrame(log)
  /\ Len(instances) = 1
  /\ inst[instances[1].id].destroyCalls = 0
  /\ \E id \in DOMAIN inst :
       /\ At(log, Call(id, "destroy")) # {}
       /\ At(log, Call(id, "render")) = {}
       /\ \E p \in At(log, Call(instances[1].id, "render")),
             q \in At(log, Call(id, "destroy")) : p < q
  /\ log[Len(log)].op = "requestAnimationFrame"

\* C18: two instances made by two add calls share no state: their uniform
\* registries are different objects, and every descriptor of an instance's
\* registry holds the location resolved from that instance's own program.
C18_OwnRegistry ==
  \A i, j \in DOMAIN inst :
    (inst[i].made /\ inst[j].made) =>
      /\ i # j => inst[i].reg # inst[j].reg
      /\ \A u \in 1..Len(regs[inst[i].reg]) :
           regs[inst[i].reg][u].location = inst[i].program

\* C19: toggle() without an argument flips the flag: from Running it sets
\* Stopped, runs no pass and queues nothing; from Stopped it sets Running
\* and runs exactly one pass inside the call, which queues the next frame.
C19_ToggleFlips ==
  [][ LastCall(log', 0, "toggle()") =>
        /\ err' = "none"
        /\ shouldRender' = ~shouldRender
        /\ shouldRender =>
              /\ Len(log') = 1
              /\ pending' = pending
              /\ UNCHANGED <<instances, inst, regs, uniforms, gl>>
        /\ ~shouldRender =>
              /\ AtOp(log', "clear") = {2}
              /\ Cardinality(At(log', Call(0, "toggle()"))) = 1
              /\ Cardinality(AtOp(log', "drawArrays")) = Len(instances)
              /\ AtOp(log', "requestAnimationFrame") = {Len(log')}
              /\ pending' = pending + 1
    ]_vars

\* toggle() restarted a stopped renderer that had drained its queue, and
\* the pass drew the one registered instance
C19_Witness ==
  /\ LastCall(log, 0, "toggle()")
  /\ shouldRender
  /\ pending = 1
  /\ Len(instances) = 1
  /\ Cardinality(AtOp(log, "drawArrays")) = 1
  /\ log[Len(log)].op = "requestAnimationFrame"

\* toggle() stopped a running renderer
C19_WitnessStop ==
  /\ log = <<Call(0, "toggle()")>>
  /\ ~shouldRender
  /\ pending = 1

====
